---- MODULE Spec2Model ----
(***************************************************************************)
(* The std::thread / std::future example of the FreeRTOS port to Teensy    *)
(* boards (example/stdthread/src/main.cpp): the bootstrap sequence         *)
(* setup(), the three top-level tasks, the threads they spawn and the      *)
(* futures task3 retrieves, run by a single-core, priority-preemptive      *)
(* scheduler.  The kernel and the thread/future library are not part of    *)
(* main.cpp; their behaviour is modelled from the design document.         *)
(***************************************************************************)
EXTENDS Integers, FiniteSets, Sequences, TLC

(* ------------------------------------------------------------------ *)
(* Platform values                                                     *)
(* ------------------------------------------------------------------ *)

\* Resolution of the timer: the number of ticks in 250 ms, the greatest
\* common divisor of the example's delays (250 ms, 500 ms, 2 s, 5 s).
TicksPer250Ms == 1

\* The period of the timer tick in milliseconds.
TickMs == 250 \div TicksPer250Ms

configMAX_PRIORITIES == 10

tskIDLE_PRIORITY == 0

\* Priority the thread library gives to a context it creates for std::thread.
DefaultThreadPriority == 1

pdMS_TO_TICKS(ms) == ms \div TickMs

(* ------------------------------------------------------------------ *)
(* Execution contexts and deferred results of the example              *)
(* ------------------------------------------------------------------ *)

TopTasks == {"task1", "task2", "task3"}

\* t1: thread of task2; a0, a1, a2: contexts of result0, result1, result2;
\* t2: thread of the packaged task; af2: context of f2; tp: detached thread.
Threads == {"t1", "a0", "a1", "a2", "t2", "af2", "tp"}

Contexts == TopTasks \cup Threads

Futures == {"result0", "result1", "result2", "f1", "f2", "f3"}

\* The contexts owned by a std::thread object of main.cpp.
Handles == {"t1", "t2", "tp"}

ThreadOf(f) ==
    CASE f = "result0" -> "a0"
      [] f = "result1" -> "a1"
      [] f = "result2" -> "a2"
      [] f = "f1" -> "t2"
      [] f = "f2" -> "af2"
      [] f = "f3" -> "tp"

FutureOf(c) == CHOOSE f \in Futures : ThreadOf(f) = c

EntryPc(c) ==
    CASE c = "task1" -> "led_low"
      [] c = "task2" -> "spawn_t1"
      [] c = "task3" -> "hello"
      [] c = "t1" -> "prio_set"
      [] OTHER -> "run"

VARIABLES
    bootPc,     \* position of setup()
    millis,     \* millis(): time since power-on in ms, up to the threshold
    serialUp,   \* Serial.begin has been called
    led,        \* level of LED_BUILTIN: "unset", "LOW" or "HIGH"
    rtc,        \* offset of the real-time clock in seconds
    syncs,      \* number of completed freertos::clock::sync_rtc() calls
    started,    \* the scheduler has been started
    cstate,     \* lifecycle state of every context
    prio,       \* priority of every context
    pc,         \* position of every context in its body
    delay,      \* remaining ticks of a timed block
    waitOn,     \* the future or context a blocked context waits for
    running,    \* the context that has the processor
    ran,        \* contexts that have executed at least one statement
    fut,        \* shared state of every deferred result
    cur,        \* the get() of line 95 that task3 is inside of
    got,        \* the get() calls of line 95 that have returned
    r, r1, r2, r3,  \* the locals of task3 (0: not yet initialised)
    asserted,   \* a configASSERT has failed
    handle,     \* state of the std::thread objects t1, t2 and the temporary
    hlog,       \* join, detach and destructor calls made on every handle
    heapLeft,   \* number of contexts the heap still has room for
    failed,     \* contexts whose creation has failed
    fault,      \* the error that has terminated the program, or "none"
    elapsed     \* ticks since task1, t1 and task3 began their last timed
                \* yield (-1: none yet)

bootVars == <<bootPc, millis, serialUp, led, rtc, syncs, started>>
schedVars == <<cstate, prio, pc, delay, waitOn, running, ran>>
task3Vars == <<fut, cur, got, r, r1, r2, r3, asserted, handle, hlog>>
resVars == <<heapLeft, failed, fault>>
vars == <<bootPc, millis, serialUp, led, rtc, syncs, started,
          cstate, prio, pc, delay, waitOn, running, ran,
          fut, cur, got, r, r1, r2, r3, asserted, handle, hlog,
          heapLeft, failed, fault, elapsed>>

NoFuture ==
    [kind |-> "none", fn |-> 0, val |-> 0, stored |-> FALSE, ready |-> FALSE,
     valid |-> FALSE, nset |-> 0, nget |-> 0, ranOn |-> "none", err |-> "none"]

NoCalls == [joins |-> 0, detaches |-> 0, destroyed |-> FALSE, err |-> "none"]

\* The contexts whose timed yields are measured.
Timed == {"task1", "t1", "task3"}

\* The state at the entry of setup(), the heap apart.
InitProgram ==
    /\ bootPc = "serial_begin"
    /\ millis = 0
    /\ serialUp = FALSE
    /\ led = "unset"
    /\ rtc = 0
    /\ syncs = 0
    /\ started = FALSE
    /\ cstate = [c \in Contexts |-> "absent"]
    /\ prio = [c \in Contexts |-> 0]
    /\ pc = [c \in Contexts |-> EntryPc(c)]
    /\ delay = [c \in Contexts |-> 0]
    /\ waitOn = [c \in Contexts |-> "none"]
    /\ running = "none"
    /\ ran = {}
    /\ fut = [f \in Futures |-> NoFuture]
    /\ cur = "none"
    /\ got = {}
    /\ r = 0
    /\ r1 = 0
    /\ r2 = 0
    /\ r3 = 0
    /\ asserted = FALSE
    /\ handle = [h \in Handles |-> "none"]
    /\ hlog = [h \in Handles |-> NoCalls]
    /\ failed = {}
    /\ fault = "none"
    /\ elapsed = [c \in Timed |-> -1]

\* The heap has room for every context of the example.
Init ==
    /\ InitProgram
    /\ heapLeft = Cardinality(Contexts)

\* The heap may run out at any creation of a context.
InitAnyHeap ==
    /\ InitProgram
    /\ heapLeft \in 0..Cardinality(Contexts)

(* ------------------------------------------------------------------ *)
(* Scheduler                                                           *)
(* ------------------------------------------------------------------ *)

ReadySet(cs) == {c \in Contexts : cs[c] = "ready"}

TopReady(cs, pr) ==
    {c \in ReadySet(cs) : \A d \in ReadySet(cs) : pr[d] <= pr[c]}

\* Variant: a scheduler without preemption, where the running context keeps
\* the processor for as long as it is ready.
Pick_NoPreemption(cs, pr, curr, slice) ==
    IF ReadySet(cs) = {} THEN {"idle"}
    ELSE IF curr \in ReadySet(cs) /\ ~slice THEN {curr}
    ELSE TopReady(cs, pr)

\* The contexts the scheduler may give the processor to: the running one
\* keeps it while it is among the ready contexts of highest priority (at a
\* tick, "slice", the contexts of that priority take turns); "idle" when
\* no context is ready.
Pick(cs, pr, curr, slice) ==
    IF ReadySet(cs) = {} THEN {"idle"}
    ELSE IF curr \in TopReady(cs, pr) /\ ~slice THEN {curr}
    ELSE TopReady(cs, pr)

PrioOf(c) == IF c \in Contexts THEN prio[c] ELSE tskIDLE_PRIORITY

\* register(name, priority, stack_budget, entry), when the heap has room
\* for the context; without room it fails and registers nothing.
xTaskCreate(cs, c) == [cs EXCEPT ![c] = "ready"]

(* ------------------------------------------------------------------ *)
(* Bootstrap sequence: setup()                                         *)
(* ------------------------------------------------------------------ *)

Setup_SerialBegin ==
    /\ bootPc = "serial_begin"
    /\ serialUp' = TRUE
    /\ bootPc' = "pin_mode"
    /\ UNCHANGED <<millis, led, rtc, syncs, started>>
    /\ UNCHANGED schedVars
    /\ UNCHANGED task3Vars
    /\ UNCHANGED resVars
    /\ UNCHANGED elapsed

Setup_LedHigh ==
    /\ bootPc = "pin_mode"
    /\ led' = "HIGH"
    /\ bootPc' = "wait_millis"
    /\ UNCHANGED <<millis, serialUp, rtc, syncs, started>>
    /\ UNCHANGED schedVars
    /\ UNCHANGED task3Vars
    /\ UNCHANGED resVars
    /\ UNCHANGED elapsed

\* Time passes while setup() runs; millis() is read by the loop of line
\* 134 only, so the count stops at the threshold.
Setup_MillisAdvance ==
    /\ ~started
    /\ millis < 2000
    /\ millis' = millis + TickMs
    /\ UNCHANGED <<bootPc, serialUp, led, rtc, syncs, started>>
    /\ UNCHANGED schedVars
    /\ UNCHANGED task3Vars
    /\ UNCHANGED resVars
    /\ UNCHANGED elapsed

\* Variant: the loop of line 134 is left at once.
Setup_WaitDone_NoWait ==
    /\ bootPc = "wait_millis"
    /\ bootPc' = "create_task1"
    /\ UNCHANGED <<millis, serialUp, led, rtc, syncs, started>>
    /\ UNCHANGED schedVars
    /\ UNCHANGED task3Vars
    /\ UNCHANGED resVars
    /\ UNCHANGED elapsed

Setup_WaitDone ==
    /\ bootPc = "wait_millis"
    /\ ~(millis < 2000)
    /\ bootPc' = "create_task1"
    /\ UNCHANGED <<millis, serialUp, led, rtc, syncs, started>>
    /\ UNCHANGED schedVars
    /\ UNCHANGED task3Vars
    /\ UNCHANGED resVars
    /\ UNCHANGED elapsed

Setup_Create(at, c, p, next) ==
    /\ bootPc = at
    /\ IF heapLeft > 0
       THEN /\ cstate' = xTaskCreate(cstate, c)
            /\ prio' = [prio EXCEPT ![c] = p]
            /\ heapLeft' = heapLeft - 1
            /\ UNCHANGED failed
       ELSE /\ failed' = failed \cup {c}
            /\ UNCHANGED <<cstate, prio, heapLeft>>
    /\ UNCHANGED fault
    /\ bootPc' = next
    /\ UNCHANGED <<millis, serialUp, led, rtc, syncs, started>>
    /\ UNCHANGED <<pc, delay, waitOn, running, ran>>
    /\ UNCHANGED task3Vars
    /\ UNCHANGED elapsed

Setup_CreateTask1 == Setup_Create("create_task1", "task1", 2, "create_task2")

Setup_CreateTask2 ==
    Setup_Create("create_task2", "task2", configMAX_PRIORITIES - 1, "create_task3")

\* Variant: setup() goes on without registering task3.
Setup_CreateTask3_Skipped ==
    /\ bootPc = "create_task3"
    /\ bootPc' = "sync_rtc_1"
    /\ UNCHANGED <<millis, serialUp, led, rtc, syncs, started>>
    /\ UNCHANGED schedVars
    /\ UNCHANGED task3Vars
    /\ UNCHANGED resVars
    /\ UNCHANGED elapsed

Setup_CreateTask3 == Setup_Create("create_task3", "task3", 3, "sync_rtc_1")

Setup_SyncRtc ==
    /\ bootPc \in {"sync_rtc_1", "sync_rtc_2"}
    /\ syncs' = syncs + 1
    /\ bootPc' = IF bootPc = "sync_rtc_1" THEN "rtc_set" ELSE "announce"
    /\ UNCHANGED <<millis, serialUp, led, rtc, started>>
    /\ UNCHANGED schedVars
    /\ UNCHANGED task3Vars
    /\ UNCHANGED resVars
    /\ UNCHANGED elapsed

Setup_RtcSet ==
    /\ bootPc = "rtc_set"
    /\ rtc' = rtc + 3600
    /\ bootPc' = "sync_rtc_2"
    /\ UNCHANGED <<millis, serialUp, led, syncs, started>>
    /\ UNCHANGED schedVars
    /\ UNCHANGED task3Vars
    /\ UNCHANGED resVars
    /\ UNCHANGED elapsed

Setup_Announce ==
    /\ bootPc = "announce"
    /\ bootPc' = "start_scheduler"
    /\ UNCHANGED <<millis, serialUp, led, rtc, syncs, started>>
    /\ UNCHANGED schedVars
    /\ UNCHANGED task3Vars
    /\ UNCHANGED resVars
    /\ UNCHANGED elapsed

\* Variant: the start call returns to setup().
vTaskStartScheduler_Returns ==
    /\ started' = TRUE
    /\ running' \in Pick(cstate, prio, "none", FALSE)
    /\ bootPc' = "setup_end"

\* start(): the processor goes to the ready context of highest priority;
\* control never comes back, so the caller stays inside the call.
vTaskStartScheduler ==
    /\ started' = TRUE
    /\ running' \in Pick(cstate, prio, "none", FALSE)
    /\ UNCHANGED bootPc

Setup_StartScheduler ==
    /\ bootPc = "start_scheduler"
    /\ ~started
    /\ vTaskStartScheduler
    /\ UNCHANGED <<millis, serialUp, led, rtc, syncs>>
    /\ UNCHANGED <<cstate, prio, pc, delay, waitOn, ran>>
    /\ UNCHANGED task3Vars
    /\ UNCHANGED resVars
    /\ UNCHANGED elapsed

Setup ==
    \/ Setup_SerialBegin
    \/ Setup_LedHigh
    \/ Setup_MillisAdvance
    \/ Setup_WaitDone
    \/ Setup_CreateTask1
    \/ Setup_CreateTask2
    \/ Setup_CreateTask3
    \/ Setup_SyncRtc
    \/ Setup_RtcSet
    \/ Setup_Announce
    \/ Setup_StartScheduler

(* ------------------------------------------------------------------ *)
(* Deferred results: future, promise, packaged task                    *)
(* ------------------------------------------------------------------ *)

\* A new shared state bound to a producer of the given kind whose callable
\* returns fnval.
MakeShared(kind, fnval) ==
    [NoFuture EXCEPT !.kind = kind, !.fn = fnval, !.valid = TRUE]

\* set_value: the slot is written once; a second write is reported.
SetValue(s, v) ==
    IF s.stored
    THEN [s EXCEPT !.err = "ResultAlreadyProduced", !.nset = @ + 1]
    ELSE [s EXCEPT !.val = v, !.stored = TRUE, !.ready = TRUE, !.nset = @ + 1]

\* set_value_at_thread_exit: the value is stored, and made visible only by
\* the teardown of the setting context.
SetValueAtThreadExit(s, v) ==
    IF s.stored
    THEN [s EXCEPT !.err = "ResultAlreadyProduced", !.nset = @ + 1]
    ELSE [s EXCEPT !.val = v, !.stored = TRUE, !.nset = @ + 1]

\* The commit made when a context is torn down.
CommitAtExit(s) == IF s.stored /\ ~s.ready THEN [s EXCEPT !.ready = TRUE] ELSE s

\* The bound callable runs on context c and its return value is stored.
RunCallable(s, c) == SetValue([s EXCEPT !.ranOn = c], s.fn)

\* Whether the launch policy of std::async starts a new execution context:
\* the deferred policy stores the callable; the async policy and the
\* default policy (async | deferred, for which the library tries a new
\* thread first) dispatch it eagerly.
LaunchesContext(policy) == policy # "deferred"

Async(policy, fnval) ==
    MakeShared(IF LaunchesContext(policy) THEN "async" ELSE "deferred", fnval)

\* Whether wait()/get() on s returns without blocking.  th is the state of
\* the context that produces s.
Available(s, th) ==
    CASE ~s.valid -> TRUE
      [] s.kind = "deferred" -> TRUE
      [] s.kind = "async" -> s.ready /\ th = "deleted"
      [] OTHER -> s.ready

\* wait() once it does not block: a deferred callable runs on the caller c.
Wait(s, c) ==
    IF s.valid /\ s.kind = "deferred" /\ ~s.stored THEN RunCallable(s, c) ELSE s

\* get() once it does not block: the new shared state and the value
\* returned (0: no value).
Get(s, c) ==
    IF ~s.valid
    THEN [s |-> [s EXCEPT !.err = "ResultAlreadyConsumed", !.nget = @ + 1], v |-> 0]
    ELSE [s |-> [Wait(s, c) EXCEPT !.valid = FALSE, !.nget = @ + 1],
          v |-> Wait(s, c).val]

(* ------------------------------------------------------------------ *)
(* Steps of a scheduled context                                        *)
(* ------------------------------------------------------------------ *)

\* What a blocked context waits for has happened.
Satisfied(w, cs, fu) ==
    IF w \in Futures THEN Available(fu[w], cs[ThreadOf(w)])
    ELSE cs[w] = "deleted"

Woken(cs, dl, wo, fu) ==
    {c \in Contexts : /\ cs[c] = "blocked"
                      /\ dl[c] = 0
                      /\ wo[c] # "none"
                      /\ Satisfied(wo[c], cs, fu)}

\* The end of every scheduler call or interrupt: the contexts whose wait is
\* over become ready and the processor goes to a ready context of highest
\* priority.
Reschedule(cs, pr, dl, wo, fu, slice) ==
    \E w \in {Woken(cs, dl, wo, fu)} :
        \E cs2 \in {[c \in Contexts |-> IF c \in w THEN "ready" ELSE cs[c]]} :
            /\ cstate' = cs2
            /\ prio' = pr
            /\ delay' = dl
            /\ waitOn' = [c \in Contexts |-> IF c \in w THEN "none" ELSE wo[c]]
            /\ fut' = fu
            /\ running' \in Pick(cs2, pr, running, slice)

\* Context c has the processor and is at position at.
At(c, at) ==
    /\ started
    /\ running = c
    /\ cstate[c] = "ready"
    /\ pc[c] = at
    /\ ~asserted
    /\ fault = "none"

\* A statement of c that touches no scheduler state.
Local(c, next) ==
    /\ pc' = [pc EXCEPT ![c] = next]
    /\ ran' = ran \cup {c}
    /\ UNCHANGED <<cstate, prio, delay, waitOn, running>>

\* vTaskDelay(ticks): c is blocked until the tick count has advanced by ticks.
vTaskDelay(c, ticks, next) ==
    /\ pc' = [pc EXCEPT ![c] = next]
    /\ ran' = ran \cup {c}
    /\ Reschedule([cstate EXCEPT ![c] = "blocked"], prio,
                  [delay EXCEPT ![c] = ticks], waitOn, fut, FALSE)

\* std::this_thread::sleep_for(ms)
sleep_for(c, ms, next) == vTaskDelay(c, pdMS_TO_TICKS(ms), next)

\* vTaskSuspend(nullptr): c parks itself for good.
vTaskSuspend(c, next) ==
    /\ pc' = [pc EXCEPT ![c] = next]
    /\ ran' = ran \cup {c}
    /\ Reschedule([cstate EXCEPT ![c] = "suspended"], prio, delay, waitOn, fut, FALSE)

\* c blocks until w (a future or a context) is available.
BlockOn(c, w) ==
    /\ ran' = ran \cup {c}
    /\ UNCHANGED pc
    /\ Reschedule([cstate EXCEPT ![c] = "blocked"], prio, delay,
                  [waitOn EXCEPT ![c] = w], fut, FALSE)

\* spawn(callable): a new context for thread th, at the default priority.
Spawn(c, th, fu, next) ==
    /\ pc' = [pc EXCEPT ![c] = next]
    /\ ran' = ran \cup {c}
    /\ heapLeft' = heapLeft - 1
    /\ UNCHANGED <<failed, fault>>
    /\ Reschedule(xTaskCreate(cstate, th),
                  [prio EXCEPT ![th] = DefaultThreadPriority],
                  delay, waitOn, fu, FALSE)

\* spawn(callable) without room for the context: ResourceExhausted is
\* raised at the call; nothing handles it and the program is terminated.
SpawnFails(c, th) ==
    /\ fault' = "ResourceExhausted"
    /\ failed' = failed \cup {th}
    /\ ran' = ran \cup {c}
    /\ UNCHANGED <<cstate, prio, pc, delay, waitOn, running, fut, heapLeft>>

\* join(), detach() and the destructor of a thread handle; st is the state
\* of the handle when it is destroyed.
HandleJoin(l) == [l EXCEPT !.joins = @ + 1]

HandleDetach(l) == [l EXCEPT !.detaches = @ + 1]

HandleDestroy(l, st) ==
    [l EXCEPT !.destroyed = TRUE,
              !.err = IF st = "joinable" THEN "UnjoinedThread" ELSE @]

\* The ticks c asks for in each of its timed yields; the measure of
\* elapsed time stops there.
Requested(c) ==
    CASE c = "task1" -> pdMS_TO_TICKS(250)
      [] c = "t1" -> pdMS_TO_TICKS(500)
      [] c = "task3" -> pdMS_TO_TICKS(5000)

\* The timer interrupt: timed blocks count down, the contexts whose delay
\* has run out become ready, and contexts of equal priority take turns.
Tick ==
    /\ started
    /\ ~asserted
    /\ fault = "none"
    /\ LET dl == [c \in Contexts |-> IF delay[c] > 0 THEN delay[c] - 1 ELSE 0]
           cs == [c \in Contexts |->
                     IF cstate[c] = "blocked" /\ delay[c] = 1 /\ waitOn[c] = "none"
                     THEN "ready" ELSE cstate[c]]
       IN Reschedule(cs, prio, dl, waitOn, fut, TRUE)
    /\ elapsed' = [c \in Timed |->
                      IF elapsed[c] >= 0 /\ elapsed[c] < Requested(c)
                      THEN elapsed[c] + 1 ELSE elapsed[c]]
    /\ UNCHANGED bootVars
    /\ UNCHANGED <<pc, ran>>
    /\ UNCHANGED <<cur, got, r, r1, r2, r3, asserted, handle, hlog>>
    /\ UNCHANGED resVars

(* ------------------------------------------------------------------ *)
(* task1: blink the LED                                                *)
(* ------------------------------------------------------------------ *)

Task1_Write(at, level, next) ==
    /\ At("task1", at)
    /\ led' = level
    /\ Local("task1", next)
    /\ UNCHANGED <<bootPc, millis, serialUp, rtc, syncs, started>>
    /\ UNCHANGED task3Vars
    /\ UNCHANGED resVars
    /\ UNCHANGED elapsed

Task1_Delay(at, next) ==
    /\ At("task1", at)
    /\ vTaskDelay("task1", pdMS_TO_TICKS(250), next)
    /\ elapsed' = [elapsed EXCEPT !["task1"] = 0]
    /\ UNCHANGED bootVars
    /\ UNCHANGED <<cur, got, r, r1, r2, r3, asserted, handle, hlog>>
    /\ UNCHANGED resVars

Task1_LedLow == Task1_Write("led_low", "LOW", "delay_low")

Task1_DelayLow == Task1_Delay("delay_low", "led_high")

Task1_LedHigh == Task1_Write("led_high", "HIGH", "delay_high")

Task1_DelayHigh == Task1_Delay("delay_high", "led_low")

Task1 ==
    \/ Task1_LedLow
    \/ Task1_DelayLow
    \/ Task1_LedHigh
    \/ Task1_DelayHigh

(* ------------------------------------------------------------------ *)
(* task2 and its thread t1                                             *)
(* ------------------------------------------------------------------ *)

Task2_SpawnT1 ==
    /\ At("task2", "spawn_t1")
    /\ IF heapLeft > 0
       THEN /\ handle' = [handle EXCEPT !["t1"] = "joinable"]
            /\ Spawn("task2", "t1", fut, "suspend")
       ELSE /\ SpawnFails("task2", "t1")
            /\ UNCHANGED handle
    /\ UNCHANGED bootVars
    /\ UNCHANGED <<cur, got, r, r1, r2, r3, asserted, hlog>>
    /\ UNCHANGED elapsed

\* Variant: task2 stops without suspending itself.
Task2_Suspend_NoPark ==
    /\ At("task2", "suspend")
    /\ Local("task2", "parked")
    /\ UNCHANGED bootVars
    /\ UNCHANGED task3Vars
    /\ UNCHANGED resVars
    /\ UNCHANGED elapsed

Task2_Suspend ==
    /\ At("task2", "suspend")
    /\ vTaskSuspend("task2", "parked")
    /\ UNCHANGED bootVars
    /\ UNCHANGED <<cur, got, r, r1, r2, r3, asserted, handle, hlog>>
    /\ UNCHANGED resVars
    /\ UNCHANGED elapsed

\* vTaskPrioritySet(nullptr, 3)
T1_PrioritySet ==
    /\ At("t1", "prio_set")
    /\ pc' = [pc EXCEPT !["t1"] = "tick"]
    /\ ran' = ran \cup {"t1"}
    /\ Reschedule(cstate, [prio EXCEPT !["t1"] = 3], delay, waitOn, fut, FALSE)
    /\ UNCHANGED bootVars
    /\ UNCHANGED <<cur, got, r, r1, r2, r3, asserted, handle, hlog>>
    /\ UNCHANGED resVars
    /\ UNCHANGED elapsed

T1_Print(at, next) ==
    /\ At("t1", at)
    /\ Local("t1", next)
    /\ UNCHANGED bootVars
    /\ UNCHANGED task3Vars
    /\ UNCHANGED resVars
    /\ UNCHANGED elapsed

\* Variant: the nested thread loops without sleeping.
T1_Sleep_Busy(at, next) ==
    /\ At("t1", at)
    /\ Local("t1", next)
    /\ UNCHANGED bootVars
    /\ UNCHANGED task3Vars
    /\ UNCHANGED resVars
    /\ UNCHANGED elapsed

T1_Sleep(at, next) ==
    /\ At("t1", at)
    /\ sleep_for("t1", 500, next)
    /\ elapsed' = [elapsed EXCEPT !["t1"] = 0]
    /\ UNCHANGED bootVars
    /\ UNCHANGED <<cur, got, r, r1, r2, r3, asserted, handle, hlog>>
    /\ UNCHANGED resVars

T1_Tick == T1_Print("tick", "sleep_tick")

T1_SleepTick == T1_Sleep("sleep_tick", "tock")

T1_Tock == T1_Print("tock", "sleep_tock")

T1_SleepTock == T1_Sleep("sleep_tock", "tick")

Task2 ==
    \/ Task2_SpawnT1
    \/ Task2_Suspend
    \/ T1_PrioritySet
    \/ T1_Tick
    \/ T1_SleepTick
    \/ T1_Tock
    \/ T1_SleepTock

(* ------------------------------------------------------------------ *)
(* Threads spawned by task3                                            *)
(* ------------------------------------------------------------------ *)

\* The context of an eager std::async, or the thread given the packaged
\* task, runs its callable: the return value goes to the result slot.
Thread_RunCallable(c) ==
    /\ c \in {"a0", "a1", "a2", "af2", "t2"}
    /\ At(c, "run")
    /\ pc' = [pc EXCEPT ![c] = "exit"]
    /\ ran' = ran \cup {c}
    /\ Reschedule(cstate, prio, delay, waitOn,
                  [fut EXCEPT ![FutureOf(c)] = RunCallable(@, c)], FALSE)
    /\ UNCHANGED bootVars
    /\ UNCHANGED <<cur, got, r, r1, r2, r3, asserted, handle, hlog>>
    /\ UNCHANGED resVars
    /\ UNCHANGED elapsed

\* Variant: the detached thread calls p.set_value(9).
Promise_SetAtExit_SetValue ==
    /\ At("tp", "run")
    /\ pc' = [pc EXCEPT !["tp"] = "exit"]
    /\ ran' = ran \cup {"tp"}
    /\ Reschedule(cstate, prio, delay, waitOn,
                  [fut EXCEPT !["f3"] = SetValue(@, 9)], FALSE)
    /\ UNCHANGED bootVars
    /\ UNCHANGED <<cur, got, r, r1, r2, r3, asserted, handle, hlog>>
    /\ UNCHANGED resVars
    /\ UNCHANGED elapsed

\* Variant: the detached thread sets the value of p twice.
Promise_SetAtExit_Twice ==
    /\ At("tp", "run")
    /\ pc' = [pc EXCEPT !["tp"] = "exit"]
    /\ ran' = ran \cup {"tp"}
    /\ Reschedule(cstate, prio, delay, waitOn,
                  [fut EXCEPT !["f3"] =
                      SetValueAtThreadExit(SetValueAtThreadExit(@, 9), 9)], FALSE)
    /\ UNCHANGED bootVars
    /\ UNCHANGED <<cur, got, r, r1, r2, r3, asserted, handle, hlog>>
    /\ UNCHANGED resVars
    /\ UNCHANGED elapsed

\* The detached thread: p.set_value_at_thread_exit(9).
Promise_SetAtExit ==
    /\ At("tp", "run")
    /\ pc' = [pc EXCEPT !["tp"] = "exit"]
    /\ ran' = ran \cup {"tp"}
    /\ Reschedule(cstate, prio, delay, waitOn,
                  [fut EXCEPT !["f3"] = SetValueAtThreadExit(@, 9)], FALSE)
    /\ UNCHANGED bootVars
    /\ UNCHANGED <<cur, got, r, r1, r2, r3, asserted, handle, hlog>>
    /\ UNCHANGED resVars
    /\ UNCHANGED elapsed

\* The body of a thread has returned: the context is torn down, a value set
\* at thread exit is committed, and whoever waits for the context is woken.
Thread_Exit(c) ==
    /\ c \in Threads
    /\ At(c, "exit")
    /\ pc' = [pc EXCEPT ![c] = "done"]
    /\ ran' = ran \cup {c}
    /\ Reschedule([cstate EXCEPT ![c] = "deleted"], prio, delay, waitOn,
                  [fut EXCEPT ![FutureOf(c)] = CommitAtExit(@)], FALSE)
    /\ UNCHANGED bootVars
    /\ UNCHANGED <<cur, got, r, r1, r2, r3, asserted, handle, hlog>>
    /\ UNCHANGED resVars
    /\ UNCHANGED elapsed

(* ------------------------------------------------------------------ *)
(* task3                                                               *)
(* ------------------------------------------------------------------ *)

Task3_Print(at, next) ==
    /\ At("task3", at)
    /\ Local("task3", next)
    /\ UNCHANGED bootVars
    /\ UNCHANGED task3Vars
    /\ UNCHANGED resVars
    /\ UNCHANGED elapsed

Task3_Hello == Task3_Print("hello", "sleep_5s")

\* Variant: task3 sleeps for 500 ms only.
Task3_Sleep_Short ==
    /\ At("task3", "sleep_5s")
    /\ elapsed' = [elapsed EXCEPT !["task3"] = 0]
    /\ sleep_for("task3", 500, "creating")
    /\ UNCHANGED bootVars
    /\ UNCHANGED <<cur, got, r, r1, r2, r3, asserted, handle, hlog>>
    /\ UNCHANGED resVars

Task3_Sleep ==
    /\ At("task3", "sleep_5s")
    /\ elapsed' = [elapsed EXCEPT !["task3"] = 0]
    /\ sleep_for("task3", 5000, "creating")
    /\ UNCHANGED bootVars
    /\ UNCHANGED <<cur, got, r, r1, r2, r3, asserted, handle, hlog>>
    /\ UNCHANGED resVars

Task3_Creating == Task3_Print("creating", "mk_result0")

\* std::future<int32_t> f { std::async(policy, [] { return fnval; }) }
\* Without room for a context the async policy fails; the default policy
\* then defers the callable, as the deferred policy always does.
Task3_Async(at, f, policy, fnval, next) ==
    /\ At("task3", at)
    /\ IF LaunchesContext(policy) /\ heapLeft > 0
       THEN /\ pc' = [pc EXCEPT !["task3"] = next]
            /\ ran' = ran \cup {"task3"}
            /\ heapLeft' = heapLeft - 1
            /\ UNCHANGED <<failed, fault>>
            /\ Reschedule(xTaskCreate(cstate, ThreadOf(f)),
                          [prio EXCEPT ![ThreadOf(f)] = DefaultThreadPriority],
                          delay, waitOn,
                          [fut EXCEPT ![f] = Async(policy, fnval)], FALSE)
       ELSE IF policy = "async"
       THEN SpawnFails("task3", ThreadOf(f))
       ELSE /\ pc' = [pc EXCEPT !["task3"] = next]
            /\ ran' = ran \cup {"task3"}
            /\ UNCHANGED resVars
            /\ Reschedule(cstate, prio, delay, waitOn,
                          [fut EXCEPT ![f] = Async("deferred", fnval)], FALSE)
    /\ UNCHANGED bootVars
    /\ UNCHANGED <<cur, got, r, r1, r2, r3, asserted, handle, hlog>>
    /\ UNCHANGED elapsed

Task3_MakeResult0 == Task3_Async("mk_result0", "result0", "default", 2, "mk_result1")

Task3_MakeResult1 == Task3_Async("mk_result1", "result1", "async", 3, "mk_result2")

\* Variant: result2 is created with the async policy.
Task3_MakeResult2_Async == Task3_Async("mk_result2", "result2", "async", 5, "sum")

Task3_MakeResult2 == Task3_Async("mk_result2", "result2", "deferred", 5, "sum")

\* Variant: wait() returns without waiting.
Task3_Wait_NoBlock(at, f, next) ==
    /\ At("task3", at)
    /\ Local("task3", next)
    /\ UNCHANGED bootVars
    /\ UNCHANGED task3Vars
    /\ UNCHANGED resVars
    /\ UNCHANGED elapsed

\* Variant: wait() takes the result out of the shared state, as get() does.
Task3_Wait_Consumes(at, f, next) ==
    /\ At("task3", at)
    /\ IF Available(fut[f], cstate[ThreadOf(f)])
       THEN /\ pc' = [pc EXCEPT !["task3"] = next]
            /\ ran' = ran \cup {"task3"}
            /\ Reschedule(cstate, prio, delay, waitOn,
                          [fut EXCEPT ![f] = Get(@, "task3").s], FALSE)
       ELSE BlockOn("task3", f)
    /\ UNCHANGED bootVars
    /\ UNCHANGED <<cur, got, r, r1, r2, r3, asserted, handle, hlog>>
    /\ UNCHANGED resVars
    /\ UNCHANGED elapsed

\* f.wait()
Task3_Wait(at, f, next) ==
    /\ At("task3", at)
    /\ IF Available(fut[f], cstate[ThreadOf(f)])
       THEN /\ pc' = [pc EXCEPT !["task3"] = next]
            /\ ran' = ran \cup {"task3"}
            /\ Reschedule(cstate, prio, delay, waitOn,
                          [fut EXCEPT ![f] = Wait(@, "task3")], FALSE)
       ELSE BlockOn("task3", f)
    /\ UNCHANGED bootVars
    /\ UNCHANGED <<cur, got, r, r1, r2, r3, asserted, handle, hlog>>
    /\ UNCHANGED resVars
    /\ UNCHANGED elapsed

\* Variant: the operand reads the result slot without waiting for it.
Task3_SumGet_NoBlock(f) ==
    /\ At("task3", "sum")
    /\ f \in {"result0", "result1", "result2"} \ got
    /\ r' = r + fut[f].val
    /\ got' = got \cup {f}
    /\ pc' = [pc EXCEPT !["task3"] =
                 IF got' = {"result0", "result1", "result2"}
                 THEN "assert_r" ELSE "sum"]
    /\ ran' = ran \cup {"task3"}
    /\ Reschedule(cstate, prio, delay, waitOn,
                  [fut EXCEPT ![f].valid = FALSE, ![f].nget = @ + 1], FALSE)
    /\ UNCHANGED bootVars
    /\ UNCHANGED <<cur, r1, r2, r3, asserted, handle, hlog>>
    /\ UNCHANGED resVars
    /\ UNCHANGED elapsed

\* One operand f.get() of the sum of line 95; the operands are evaluated in
\* an order the language leaves open.
Task3_SumGet(f) ==
    /\ At("task3", "sum")
    /\ f \in {"result0", "result1", "result2"} \ got
    /\ cur \in {"none", f}
    /\ IF Available(fut[f], cstate[ThreadOf(f)])
       THEN /\ r' = r + Get(fut[f], "task3").v
            /\ got' = got \cup {f}
            /\ cur' = "none"
            /\ pc' = [pc EXCEPT !["task3"] =
                         IF got' = {"result0", "result1", "result2"}
                         THEN "assert_r" ELSE "sum"]
            /\ ran' = ran \cup {"task3"}
            /\ Reschedule(cstate, prio, delay, waitOn,
                          [fut EXCEPT ![f] = Get(@, "task3").s], FALSE)
       ELSE /\ cur' = f
            /\ BlockOn("task3", f)
            /\ UNCHANGED <<r, got>>
    /\ UNCHANGED bootVars
    /\ UNCHANGED <<r1, r2, r3, asserted, handle, hlog>>
    /\ UNCHANGED resVars
    /\ UNCHANGED elapsed

\* printf(...); configASSERT(cond): a failed assertion halts the system.
Task3_Assert(at, cond, next) ==
    /\ At("task3", at)
    /\ asserted' = ~cond
    /\ Local("task3", next)
    /\ UNCHANGED bootVars
    /\ UNCHANGED <<fut, cur, got, r, r1, r2, r3, handle, hlog>>
    /\ UNCHANGED resVars
    /\ UNCHANGED elapsed

Task3_AssertR == Task3_Assert("assert_r", 2 + 3 + 5 = r, "mk_task")

\* std::packaged_task<int()> task([] { return 7; }); f1 = task.get_future()
Task3_MakeTask ==
    /\ At("task3", "mk_task")
    /\ fut' = [fut EXCEPT !["f1"] = MakeShared("task", 7)]
    /\ Local("task3", "mk_t2")
    /\ UNCHANGED bootVars
    /\ UNCHANGED <<cur, got, r, r1, r2, r3, asserted, handle, hlog>>
    /\ UNCHANGED resVars
    /\ UNCHANGED elapsed

\* Variant: the handle t2 is made without a thread behind it.
Task3_SpawnT2_NoThread ==
    /\ At("task3", "mk_t2")
    /\ handle' = [handle EXCEPT !["t2"] = "joinable"]
    /\ Local("task3", "mk_f2")
    /\ UNCHANGED bootVars
    /\ UNCHANGED <<fut, cur, got, r, r1, r2, r3, asserted, hlog>>
    /\ UNCHANGED resVars
    /\ UNCHANGED elapsed

\* std::thread t2(std::move(task))
Task3_SpawnT2 ==
    /\ At("task3", "mk_t2")
    /\ IF heapLeft > 0
       THEN /\ handle' = [handle EXCEPT !["t2"] = "joinable"]
            /\ Spawn("task3", "t2", fut, "mk_f2")
       ELSE /\ SpawnFails("task3", "t2")
            /\ UNCHANGED handle
    /\ UNCHANGED bootVars
    /\ UNCHANGED <<cur, got, r, r1, r2, r3, asserted, hlog>>
    /\ UNCHANGED elapsed

Task3_MakeF2 == Task3_Async("mk_f2", "f2", "async", 8, "mk_p")

\* std::promise<int> p; f3 = p.get_future()
Task3_MakePromise ==
    /\ At("task3", "mk_p")
    /\ fut' = [fut EXCEPT !["f3"] = MakeShared("promise", 0)]
    /\ Local("task3", "mk_tp")
    /\ UNCHANGED bootVars
    /\ UNCHANGED <<cur, got, r, r1, r2, r3, asserted, handle, hlog>>
    /\ UNCHANGED resVars
    /\ UNCHANGED elapsed

\* Variant: the temporary thread object is destroyed without detach().
Task3_SpawnDetached_NoDetach ==
    /\ At("task3", "mk_tp")
    /\ heapLeft > 0
    /\ handle' = [handle EXCEPT !["tp"] = "joinable"]
    /\ hlog' = [hlog EXCEPT !["tp"] = HandleDestroy(@, "joinable")]
    /\ Spawn("task3", "tp", fut, "waiting")
    /\ UNCHANGED bootVars
    /\ UNCHANGED <<cur, got, r, r1, r2, r3, asserted>>
    /\ UNCHANGED elapsed

\* std::thread([&p] { ... }).detach(): the temporary is detached and then
\* destroyed at the end of the statement.
Task3_SpawnDetached ==
    /\ At("task3", "mk_tp")
    /\ IF heapLeft > 0
       THEN /\ handle' = [handle EXCEPT !["tp"] = "detached"]
            /\ hlog' = [hlog EXCEPT !["tp"] =
                            HandleDestroy(HandleDetach(@), "detached")]
            /\ Spawn("task3", "tp", fut, "waiting")
       ELSE /\ SpawnFails("task3", "tp")
            /\ UNCHANGED <<handle, hlog>>
    /\ UNCHANGED bootVars
    /\ UNCHANGED <<cur, got, r, r1, r2, r3, asserted>>
    /\ UNCHANGED elapsed

Task3_Waiting == Task3_Print("waiting", "wait_f1")

Task3_WaitF1 == Task3_Wait("wait_f1", "f1", "wait_f2")

Task3_WaitF2 == Task3_Wait("wait_f2", "f2", "wait_f3")

Task3_WaitF3 == Task3_Wait("wait_f3", "f3", "get_f1")

\* const auto rN { f.get() }: v is the value get() returns.
Task3_Get(at, f, next) ==
    /\ At("task3", at)
    /\ IF Available(fut[f], cstate[ThreadOf(f)])
       THEN /\ pc' = [pc EXCEPT !["task3"] = next]
            /\ ran' = ran \cup {"task3"}
            /\ r1' = IF at = "get_f1" THEN Get(fut[f], "task3").v ELSE r1
            /\ r2' = IF at = "get_f2" THEN Get(fut[f], "task3").v ELSE r2
            /\ r3' = IF at = "get_f3" THEN Get(fut[f], "task3").v ELSE r3
            /\ Reschedule(cstate, prio, delay, waitOn,
                          [fut EXCEPT ![f] = Get(@, "task3").s], FALSE)
       ELSE /\ BlockOn("task3", f)
            /\ UNCHANGED <<r1, r2, r3>>
    /\ UNCHANGED bootVars
    /\ UNCHANGED <<cur, got, r, asserted, handle, hlog>>
    /\ UNCHANGED resVars
    /\ UNCHANGED elapsed

\* Variant: r1 is read from f3.
Task3_GetF1_FromF3 == Task3_Get("get_f1", "f3", "get_f2")

Task3_GetF1 == Task3_Get("get_f1", "f1", "get_f2")

\* Variant: r2 is read from f1 a second time.
Task3_GetF2_FromF1 == Task3_Get("get_f2", "f1", "get_f3")

Task3_GetF2 == Task3_Get("get_f2", "f2", "get_f3")

Task3_GetF3 == Task3_Get("get_f3", "f3", "assert_sum")

Task3_AssertSum == Task3_Assert("assert_sum", 7 + 8 + 9 = r1 + r2 + r3, "join_t2")

\* Variant: join() returns without waiting for the thread.
Task3_JoinT2_NoWait ==
    /\ At("task3", "join_t2")
    /\ handle' = [handle EXCEPT !["t2"] = "joined"]
    /\ hlog' = [hlog EXCEPT !["t2"] = HandleJoin(@)]
    /\ Local("task3", "suspend")
    /\ UNCHANGED fut
    /\ UNCHANGED bootVars
    /\ UNCHANGED <<cur, got, r, r1, r2, r3, asserted>>
    /\ UNCHANGED resVars
    /\ UNCHANGED elapsed

\* t2.join()
Task3_JoinT2 ==
    /\ At("task3", "join_t2")
    /\ IF cstate["t2"] = "deleted"
       THEN /\ handle' = [handle EXCEPT !["t2"] = "joined"]
            /\ hlog' = [hlog EXCEPT !["t2"] = HandleJoin(@)]
            /\ Local("task3", "suspend")
            /\ UNCHANGED fut
       ELSE /\ BlockOn("task3", "t2")
            /\ UNCHANGED <<handle, hlog>>
    /\ UNCHANGED bootVars
    /\ UNCHANGED <<cur, got, r, r1, r2, r3, asserted>>
    /\ UNCHANGED resVars
    /\ UNCHANGED elapsed

\* Variant: task3 returns from its body and its context is torn down.
Task3_Suspend_Returns ==
    /\ At("task3", "suspend")
    /\ pc' = [pc EXCEPT !["task3"] = "parked"]
    /\ ran' = ran \cup {"task3"}
    /\ Reschedule([cstate EXCEPT !["task3"] = "deleted"], prio, delay, waitOn,
                  fut, FALSE)
    /\ UNCHANGED bootVars
    /\ UNCHANGED <<cur, got, r, r1, r2, r3, asserted, handle, hlog>>
    /\ UNCHANGED resVars
    /\ UNCHANGED elapsed

Task3_Suspend ==
    /\ At("task3", "suspend")
    /\ vTaskSuspend("task3", "parked")
    /\ UNCHANGED bootVars
    /\ UNCHANGED <<cur, got, r, r1, r2, r3, asserted, handle, hlog>>
    /\ UNCHANGED resVars
    /\ UNCHANGED elapsed

Task3 ==
    \/ Task3_Hello
    \/ Task3_Sleep
    \/ Task3_Creating
    \/ Task3_MakeResult0
    \/ Task3_MakeResult1
    \/ Task3_MakeResult2
    \/ \E f \in Futures : Task3_SumGet(f)
    \/ Task3_AssertR
    \/ Task3_MakeTask
    \/ Task3_SpawnT2
    \/ Task3_MakeF2
    \/ Task3_MakePromise
    \/ Task3_SpawnDetached
    \/ Task3_Waiting
    \/ Task3_WaitF1
    \/ Task3_WaitF2
    \/ Task3_WaitF3
    \/ Task3_GetF1
    \/ Task3_GetF2
    \/ Task3_GetF3
    \/ Task3_AssertSum
    \/ Task3_JoinT2
    \/ Task3_Suspend

Spawned ==
    \/ \E c \in Threads : Thread_RunCallable(c)
    \/ Promise_SetAtExit
    \/ \E c \in Threads : Thread_Exit(c)

\* Every step of a context that has the processor.
Run == Task1 \/ Task2 \/ Task3 \/ Spawned

Next ==
    \/ Setup
    \/ Tick
    \/ Run

Spec == Init /\ [][Next]_vars

\* The processor always executes the running context, setup() runs until
\* the scheduler is started, and the timer keeps ticking.
FairSpec == Spec /\ WF_vars(Setup) /\ WF_vars(Run) /\ WF_vars(Tick)

\* A context that is given the processor again and again executes its next
\* statement: a statement takes far less than the tick period for which a
\* context keeps the processor while the contexts above it sleep.  The
\* steps are grouped by the top-level task they belong to; those of the
\* threads task3 spawns form one group.
StrongFairSpec ==
    /\ Spec
    /\ WF_vars(Setup)
    /\ WF_vars(Tick)
    /\ SF_vars(Task1)
    /\ SF_vars(Task2)
    /\ SF_vars(Task3)
    /\ SF_vars(Spawned)

\* The program on a heap that may run out at any creation of a context.
AnyHeapSpec == InitAnyHeap /\ [][Next]_vars

(* ------------------------------------------------------------------ *)
(* Properties                                                          *)
(* ------------------------------------------------------------------ *)

Registered == {c \in TopTasks : cstate[c] # "absent"}

SumFutures == {"result0", "result1", "result2"}

\* The statements of task3 in program order.
Task3Order ==
    <<"hello", "sleep_5s", "creating", "mk_result0", "mk_result1", "mk_result2",
      "sum", "assert_r", "mk_task", "mk_t2", "mk_f2", "mk_p", "mk_tp", "waiting",
      "wait_f1", "wait_f2", "wait_f3", "get_f1", "get_f2", "get_f3",
      "assert_sum", "join_t2", "suspend", "parked">>

Task3Pos(p) == CHOOSE i \in 1..Len(Task3Order) : Task3Order[i] = p

\* task3 has completed the statement at position p.
Task3Past(p) == Task3Pos(pc["task3"]) > Task3Pos(p)

\* C1: under fair scheduling, after setup() has registered task1, task2 and
\* task3 and started the scheduler, each of the three eventually executes
\* its first statement.
C1_EveryTaskRuns == <>(started /\ TopTasks \subseteq ran)

C1_Witness == started /\ Registered = TopTasks /\ TopTasks \subseteq ran

C3_SyncBeforeRegistration ==
    /\ bootPc = "wait_millis" => serialUp /\ led # "unset"
    /\ syncs > 0 => millis >= 2000 /\ serialUp /\ led # "unset"
    /\ Registered # {} => syncs = 2
    /\ started => Registered = TopTasks

\* C3 as amended: initialisation, wait, registration of the three
\* top-level contexts, time synchronization, start.
C3_BootstrapOrder ==
    /\ bootPc = "wait_millis" => serialUp /\ led # "unset"
    /\ Registered # {} => millis >= 2000 /\ serialUp /\ led # "unset"
    /\ syncs > 0 => Registered = TopTasks
    /\ rtc # 0 => syncs >= 1
    /\ started => syncs = 2 /\ Registered = TopTasks

C3_Witness == started /\ syncs = 2 /\ Registered = TopTasks /\ millis >= 2000

\* C4: once the scheduler has been started, setup() is still inside the
\* start call: the end of setup() and loop() are never reached.
C4_StartNeverReturns == started => bootPc = "start_scheduler"

C4_Witness == started /\ bootPc = "start_scheduler" /\ pc["task3"] = "parked"

\* C5: when the three get() calls of line 95 have returned, r is 2 + 3 + 5
\* and the assertion on r has not failed.
C5_SumIsTen ==
    /\ got = SumFutures => r = 2 + 3 + 5
    /\ Task3Past("assert_r") => ~asserted

\* task3 has passed the assertion on r with all three operands retrieved.
C5_Witness ==
    /\ got = SumFutures
    /\ r = 10
    /\ pc["task3"] = "mk_task"
    /\ ~asserted

\* C6: f3 is ready only when the detached thread has been torn down, and
\* neither f3.wait() nor f3.get() returns before that.
C6_ReadyOnlyAfterExit ==
    /\ fut["f3"].ready => cstate["tp"] = "deleted"
    /\ Task3Past("wait_f3") => cstate["tp"] = "deleted"
    /\ r3 # 0 => cstate["tp"] = "deleted"

\* The value is set, the producer is still alive, and task3 waits.
C6_Witness ==
    /\ fut["f3"].stored
    /\ ~fut["f3"].ready
    /\ pc["tp"] = "exit"
    /\ cstate["tp"] # "deleted"
    /\ waitOn["task3"] = "f3"

\* C7: for the packaged task on a thread (f1) and for the eager dispatch
\* (f2) alike, wait() returns only after the callable has run to completion
\* on its own context, and get() yields the callable's return value.
C7_PackagedEqualsEager ==
    \A f \in {"f1", "f2"} :
        /\ Task3Past(IF f = "f1" THEN "wait_f1" ELSE "wait_f2") =>
               fut[f].stored /\ fut[f].ranOn = ThreadOf(f)
        /\ Task3Past(IF f = "f1" THEN "get_f1" ELSE "get_f2") =>
               (IF f = "f1" THEN r1 ELSE r2) = fut[f].fn

C7_Witness == Task3Past("get_f2") /\ r1 = 7 /\ r2 = 8

\* C8: the callable of result2 runs only inside task3's get() on result2,
\* on task3's context, and result2 never has a context of its own.
C8_DeferredRunsOnCaller ==
    /\ cstate["a2"] = "absent"
    /\ fut["result2"].ranOn \in {"none", "task3"}
    /\ fut["result2"].stored <=> "result2" \in got
    /\ fut["result2"].stored => fut["result2"].ranOn = "task3"

\* result2 has been retrieved while another operand of the sum is pending.
C8_Witness ==
    /\ fut["result2"].ranOn = "task3"
    /\ "result2" \in got
    /\ got # SumFutures

\* C9: no result slot is written twice, no second write is reported, and a
\* further set_value on a written slot would report ResultAlreadyProduced
\* and leave the value as it is.
C9_WrittenOnce ==
    \A f \in Futures :
        /\ fut[f].nset <= 1
        /\ fut[f].err # "ResultAlreadyProduced"
        /\ fut[f].stored =>
               \A v \in 0..9 :
                   /\ SetValue(fut[f], v).err = "ResultAlreadyProduced"
                   /\ SetValue(fut[f], v).val = fut[f].val

C9_Witness == \A f \in Futures : fut[f].nset = 1 /\ fut[f].stored

\* C10: task3 calls get() at most once on every deferred result, no second
\* get() is reported, and a further get() on a consumed one would report
\* ResultAlreadyConsumed and return no value.
C10_ConsumedOnce ==
    \A f \in Futures :
        /\ fut[f].nget <= 1
        /\ fut[f].err # "ResultAlreadyConsumed"
        /\ fut[f].kind # "none" /\ ~fut[f].valid =>
               /\ Get(fut[f], "task3").s.err = "ResultAlreadyConsumed"
               /\ Get(fut[f], "task3").v = 0
               /\ Get(fut[f], "task3").s.val = fut[f].val

C10_Witness == \A f \in Futures : fut[f].nget = 1 /\ ~fut[f].valid

\* C11: every thread handle is joined or detached, once and not both,
\* before it is destroyed: t2 is joined once, the temporary carrying the
\* promise is detached once and then destroyed, the handle t1 is neither
\* joined, detached nor destroyed since task2 stays suspended once it has
\* parked, and no UnjoinedThread error is reported.
C11_HandlesSettled ==
    /\ \A h \in Handles :
        /\ hlog[h].err = "none"
        /\ hlog[h].joins + hlog[h].detaches <= 1
        /\ hlog[h].destroyed => hlog[h].joins + hlog[h].detaches = 1
    /\ hlog["t1"] = NoCalls
    /\ handle["t1"] \in {"none", "joinable"}
    /\ pc["task2"] = "parked" => cstate["task2"] = "suspended"
    /\ hlog["t2"].detaches = 0 /\ ~hlog["t2"].destroyed
    /\ handle["t2"] = "joined" <=> hlog["t2"].joins = 1
    /\ hlog["tp"].joins = 0
    /\ handle["tp"] = "detached" <=> hlog["tp"].detaches = 1
    /\ handle["tp"] # "none" => hlog["tp"].destroyed

\* t2 has been joined, the temporary detached and destroyed, and t1 is
\* still joinable in the frame of the parked task2.
C11_Witness ==
    /\ hlog["t2"].joins = 1
    /\ hlog["tp"].detaches = 1
    /\ hlog["tp"].destroyed
    /\ handle["t1"] = "joinable"
    /\ pc["task2"] = "parked"
    /\ pc["task3"] = "parked"

\* C12: t2.join() returns only once the thread of the packaged task has
\* been torn down, task3 is never left blocked in join() on a thread that
\* has completed, and every call of t2.join() eventually returns.
C12_JoinReturns ==
    /\ [](handle["t2"] = "joined" => cstate["t2"] = "deleted")
    /\ [](cstate["task3"] = "blocked" /\ waitOn["task3"] = "t2" =>
              cstate["t2"] # "deleted")
    /\ (pc["task3"] = "join_t2") ~> (handle["t2"] = "joined")

\* join() has returned on the completed thread.
C12_Witness ==
    /\ handle["t2"] = "joined"
    /\ cstate["t2"] = "deleted"
    /\ pc["task3"] = "suspend"

\* C13: in every fair execution task1 writes LOW and HIGH to the LED again
\* and again and task3 reaches its final self-suspension, while the nested
\* thread of task2 loops for ever at priority 3.
C13_NoStarvation ==
    /\ []<>(led = "LOW" /\ pc["task1"] = "delay_low")
    /\ []<>(led = "HIGH" /\ pc["task1"] = "delay_high")
    /\ <>(pc["task3"] = "parked")

\* The nested thread is in its loop at priority 3 and task1, of priority 2,
\* has just toggled the LED after task3 has parked.
C13_Witness ==
    /\ prio["task1"] = 2
    /\ prio["task2"] = configMAX_PRIORITIES - 1
    /\ prio["task3"] = 3
    /\ prio["t1"] = 3
    /\ pc["t1"] = "sleep_tock"
    /\ pc["task3"] = "parked"
    /\ led = "LOW"
    /\ pc["task1"] = "delay_low"

\* C14 as stated: every failed creation of a context is reported as
\* ResourceExhausted, and no context is blocked on a deferred result whose
\* producer context was never created.
C14_FailureSurfaced ==
    /\ failed # {} => fault = "ResourceExhausted"
    /\ \A c \in Contexts :
           cstate[c] = "blocked" /\ waitOn[c] \in Futures =>
               cstate[ThreadOf(waitOn[c])] # "absent"

\* C15: counted in ticks, a context is never resumed from a timed yield
\* before the duration it asked for: 250 ms for task1, 500 ms for the
\* nested thread, 5 s for task3, which creates no future before that.
C15_NoEarlyResume ==
    /\ elapsed["task1"] >= 0 /\ cstate["task1"] # "blocked" =>
           elapsed["task1"] >= pdMS_TO_TICKS(250)
    /\ elapsed["t1"] >= 0 /\ cstate["t1"] # "blocked" =>
           elapsed["t1"] >= pdMS_TO_TICKS(500)
    /\ Task3Past("sleep_5s") /\ ~(cstate["task3"] = "blocked" /\ delay["task3"] > 0) =>
           elapsed["task3"] >= pdMS_TO_TICKS(5000)
    /\ \A f \in Futures :
           fut[f].kind # "none" => elapsed["task3"] >= pdMS_TO_TICKS(5000)

\* Each of the three contexts has been resumed from a timed yield and
\* task3 has created a future.
C15_Witness ==
    /\ elapsed["task1"] = pdMS_TO_TICKS(250)
    /\ cstate["task1"] = "ready"
    /\ elapsed["t1"] = pdMS_TO_TICKS(500)
    /\ cstate["t1"] = "ready"
    /\ elapsed["task3"] = pdMS_TO_TICKS(5000)
    /\ fut["result0"].kind # "none"

\* C16: r1 is the 7 of the packaged task, r2 the 8 of the eager
\* std::async and r3 the 9 of the promise, and the assertion on their sum
\* does not fail.
C16_OwnProducerValue ==
    /\ Task3Past("get_f1") => r1 = 7 /\ fut["f1"].ranOn = "t2"
    /\ Task3Past("get_f2") => r2 = 8 /\ fut["f2"].ranOn = "af2"
    /\ Task3Past("get_f3") => r3 = 9 /\ pc["tp"] = "done"
    /\ Task3Past("assert_sum") => ~asserted /\ r1 + r2 + r3 = 24

C16_Witness ==
    /\ pc["task3"] = "join_t2"
    /\ r1 = 7
    /\ r2 = 8
    /\ r3 = 9
    /\ ~asserted

\* The value the producer of f stores: 7 for f1, 8 for f2, 9 for f3.
Produced(f) == CASE f = "f1" -> 7 [] f = "f2" -> 8 [] f = "f3" -> 9

\* The position of f.get() in task3.
GetAt(f) == CASE f = "f1" -> "get_f1" [] f = "f2" -> "get_f2" [] f = "f3" -> "get_f3"

\* C17: once f1.wait(), f2.wait() and f3.wait() have returned, each of f1,
\* f2, f3 still holds its value unconsumed until its get(), which finds the
\* result available, does not block and reports no ResultAlreadyConsumed.
C17_WaitLeavesResult ==
    /\ \A f \in {"f1", "f2", "f3"} :
        /\ Task3Past("wait_f3") /\ ~Task3Past(GetAt(f)) =>
               /\ fut[f].valid
               /\ fut[f].stored
               /\ fut[f].nget = 0
               /\ fut[f].val = Produced(f)
               /\ Available(fut[f], cstate[ThreadOf(f)])
        /\ Task3Past(GetAt(f)) =>
               /\ fut[f].nget = 1
               /\ fut[f].err = "none"
               /\ fut[f].val = Produced(f)
    /\ pc["task3"] \in {"get_f1", "get_f2", "get_f3"} => cstate["task3"] # "blocked"

\* The three waits have returned and f1 has been retrieved, f2 and f3 not yet.
C17_Witness ==
    /\ pc["task3"] = "get_f2"
    /\ r1 = 7
    /\ fut["f2"].valid
    /\ fut["f3"].valid
    /\ fut["f3"].val = 9

\* C18: the scheduler starts with task1, task2 and task3 registered and
\* stays started; after the start no top-level context is registered, and
\* a context is created after the start only, by a statement of task2 or
\* task3.
C18_StartedOnce ==
    /\ [](started => Registered = TopTasks)
    /\ [][/\ started => started'
          /\ started => \A c \in TopTasks :
                            cstate[c] = "absent" <=> cstate'[c] = "absent"
          /\ \A th \in Threads :
                 cstate[th] = "absent" /\ cstate'[th] # "absent" =>
                     started /\ running \in {"task2", "task3"}]_vars

\* The scheduler has started and task2 and task3 have spawned.
C18_Witness ==
    /\ started
    /\ Registered = TopTasks
    /\ cstate["t1"] # "absent"
    /\ cstate["a0"] # "absent"
    /\ cstate["t2"] # "absent"
    /\ cstate["tp"] # "absent"

\* C19: under fair scheduling task3 ends suspended at its last statement
\* with both assertions passed, and whenever it is blocked on a deferred
\* result or on the join it is resumed.
C19_Task3Completes ==
    /\ <>(pc["task3"] = "parked" /\ cstate["task3"] = "suspended" /\ ~asserted)
    /\ [](cstate["task3"] = "blocked" => <>(cstate["task3"] # "blocked"))
    /\ []~asserted

\* task3 has parked itself after the join while the nested thread loops.
C19_Witness ==
    /\ pc["task3"] = "parked"
    /\ cstate["task3"] = "suspended"
    /\ handle["t2"] = "joined"
    /\ r = 10
    /\ r1 + r2 + r3 = 24
    /\ ~asserted
    /\ pc["t1"] \in {"tick", "tock"}

\* The promise p, a local of task3, exists from its definition until
\* task3 returns.
PromiseAlive == fut["f3"].kind = "promise" /\ cstate["task3"] \notin {"absent", "deleted"}

\* C20: task3 never returns from its body, and p is alive in every state
\* in which the detached thread exists, up to and including its teardown.
C20_PromiseOutlivesThread ==
    /\ cstate["task3"] # "deleted"
    /\ pc["task3"] = "parked" => cstate["task3"] = "suspended"
    /\ cstate["tp"] \notin {"absent", "deleted"} => PromiseAlive
    /\ fut["f3"].stored => PromiseAlive

\* The detached thread has been torn down and its value committed, and
\* task3 is parked with p still in its frame.
C20_Witness ==
    /\ cstate["tp"] = "deleted"
    /\ fut["f3"].ready
    /\ fut["f3"].val = 9
    /\ pc["task3"] = "parked"
    /\ PromiseAlive
====
